---- MODULE Spec2Model ----
(***************************************************************************)
(* Model of the MS-EVB trajectory analysis scripts.                        *)
(*                                                                         *)
(*   forward_hop.py : eval_hop_function, the hop classifier                *)
(*   civec_pdf.py   : the per-frame amplitude extraction (main, lines      *)
(*                    52-61, and second_largest) and the free-energy       *)
(*                    profile (main, lines 79-99)                          *)
(*                                                                         *)
(* The three computations share no data, so each has its own               *)
(* specification (SpecHop, SpecAmp, SpecFE) over its own variables; the    *)
(* variables of the other two are held at their idle values.               *)
(***************************************************************************)
EXTENDS Integers, Sequences, FiniteSets

VARIABLES
    \* forward_hop.py, eval_hop_function
    ts,          \* the timestep sequence (argument)
    rxncenter,   \* the reaction-center sequence (argument)
    i,           \* the loop variable of "for i in range(1,numts)"
    hts,         \* the hop function built so far
    pdonor,      \* the donor history
    hop_pc,      \* "idle" | "loop" | "returned" | "IndexError"
    \* civec_pdf.py, main, lines 52-61
    tmp,         \* the CI vectors, one sequence of amplitudes per frame
    frame,       \* position of "for i in tmp" (1-based index of the next frame)
    first,       \* squared largest amplitude per frame
    second,      \* squared second largest amplitude per frame
    amp_pc,      \* "idle" | "loop" | "done" | "ValueError" | "TypeError"
    none_ordered,\* whether the interpreter orders None below every number
    \* civec_pdf.py, main, lines 43-99
    genfe,       \* args.freeenergy
    genfed,      \* args.freeenergydiff
    nbins,       \* args.bins: the int default, or the str given with --bins
    linspace_coerces, \* whether the installed numpy.linspace applies int() to num
    pdf1,        \* density fitted from first
    bin_pdf1,    \* linspace(0, 1, nbins)
    pdf3,        \* density fitted from first-second (set only if genfed)
    pdf4,        \* density fitted from second-first (set only if genfed)
    bin_pdf3,    \* linspace(-1, 1, 2*nbins) (set only if genfed)
    g,           \* position of the loop over the grid (0-based index of the next point)
    free_energy, \* the profile built so far
    minfe,       \* the running minimum of min(free_energy)
    mpos,        \* position of min's iteration (1-based index of the next item)
    fe_pc        \* "idle" | "fit" | "start" | "loop" | "min" | "done" | "density"
                 \* | "TypeError" | "ValueError"

hopvars == <<ts, rxncenter, i, hts, pdonor, hop_pc>>

ampvars == <<tmp, frame, first, second, amp_pc, none_ordered>>

\* What the free-energy block reads and never assigns.
fefixed == <<genfe, genfed, nbins, linspace_coerces, pdf1, bin_pdf1, pdf3, pdf4, bin_pdf3>>

fevars == <<fefixed, g, free_energy, minfe, mpos, fe_pc>>

vars == <<hopvars, ampvars, fevars>>

----------------------------------------------------------------------------
(* Bounds of the model. *)

MaxFrames == 5

MaxCenter == 3

MaxAmpFrames == 2

MaxStates == 2

MaxDigits == 1

NSeg == 4

\* Reaction-center identifiers.  0 is included: nothing in the code excludes it.
Centers == 0..MaxCenter

\* All sequences over S of length lo..hi.
SeqsOf(S, lo, hi) == UNION {[1..n -> S] : n \in lo..hi}

----------------------------------------------------------------------------
(* Idle values: what the variables of a computation hold under the         *)
(* specifications of the other two.                                        *)

HopIdle ==
    /\ ts = <<>>
    /\ rxncenter = <<>>
    /\ i = 1
    /\ hts = <<>>
    /\ pdonor = <<>>
    /\ hop_pc = "idle"

AmpIdle ==
    /\ tmp = <<>>
    /\ frame = 1
    /\ first = <<>>
    /\ second = <<>>
    /\ amp_pc = "idle"
    /\ none_ordered = TRUE

\* A name that is not bound.
Unset == <<>>

FeIdle ==
    /\ genfe = FALSE
    /\ genfed = FALSE
    /\ nbins = Unset
    /\ linspace_coerces = TRUE
    /\ pdf1 = Unset
    /\ bin_pdf1 = Unset
    /\ pdf3 = Unset
    /\ pdf4 = Unset
    /\ bin_pdf3 = Unset
    /\ g = 0
    /\ free_energy = <<>>
    /\ minfe = Unset
    /\ mpos = 1
    /\ fe_pc = "idle"

----------------------------------------------------------------------------
(* forward_hop.py : eval_hop_function                                      *)

\* hts = []; hts.append(0)
InitHts == <<0>>

\* pdonor = [0]
InitPdonor == <<0>>

\* numts = len(ts)
numts == Len(ts)

\* pdonor[-1]
Top(pd) == pd[Len(pd)]

\* The value of val chosen by the if/else of the loop body.
HopValAnyDonor(pcenter, ccenter, pd) ==
    IF pcenter = ccenter THEN 0
    ELSE IF \E k \in 1..Len(pd) : pd[k] = ccenter THEN -1
    ELSE 1

HopVal(pcenter, ccenter, pd) ==
    IF pcenter = ccenter THEN 0
    ELSE IF ccenter = Top(pd) THEN -1
    ELSE 1

\* pdonor after the loop body: appended to only in the forward branch.
NextPdonorPopOnBackward(pcenter, ccenter, pd) ==
    IF pcenter = ccenter THEN pd
    ELSE IF ccenter = Top(pd)
         THEN (IF Len(pd) > 1 THEN SubSeq(pd, 1, Len(pd) - 1) ELSE pd)
         ELSE Append(pd, pcenter)

NextPdonorPushOnAnyHop(pcenter, ccenter, pd) ==
    IF pcenter = ccenter THEN pd ELSE Append(pd, pcenter)

NextPdonor(pcenter, ccenter, pd) ==
    IF pcenter # ccenter /\ ccenter # Top(pd) THEN Append(pd, pcenter) ELSE pd

\* hts.append(hts[i-1] + val); Python index i-1 is TLA+ index i.
NextHtsFromOrigin(h, idx, val) == Append(h, h[1] + val)

NextHts(h, idx, val) == Append(h, h[idx] + val)

\* rxncenter[i-1] and rxncenter[i] (Python) are readable.
InRange(idx) == idx + 1 <= Len(rxncenter)

\* One pass of the loop body, lines 90-111.
HopBody ==
    /\ hop_pc = "loop"
    /\ i < numts
    /\ InRange(i)
    /\ LET pcenter == rxncenter[i]
           ccenter == rxncenter[i + 1]
           val     == HopVal(pcenter, ccenter, pdonor)
       IN /\ pdonor' = NextPdonor(pcenter, ccenter, pdonor)
          /\ hts' = NextHts(hts, i, val)
    /\ i' = i + 1
    /\ UNCHANGED <<ts, rxncenter, hop_pc, ampvars, fevars>>

\* rxncenter is shorter than ts: the subscript of line 91 or 93 raises.
HopIndexError ==
    /\ hop_pc = "loop"
    /\ i < numts
    /\ ~InRange(i)
    /\ hop_pc' = "IndexError"
    /\ UNCHANGED <<ts, rxncenter, i, hts, pdonor, ampvars, fevars>>

\* range(1,numts) is exhausted: return hts.
HopReturn ==
    /\ hop_pc = "loop"
    /\ i >= numts
    /\ hop_pc' = "returned"
    /\ UNCHANGED <<ts, rxncenter, i, hts, pdonor, ampvars, fevars>>

\* The state at line 89, before the first pass.
InitHop ==
    /\ AmpIdle
    /\ FeIdle
    /\ ts \in {[k \in 1..n |-> k - 1] : n \in 0..MaxFrames}
    /\ rxncenter \in SeqsOf(Centers, 0, MaxFrames)
    /\ i = 1
    /\ hts = InitHts
    /\ pdonor = InitPdonor
    /\ hop_pc = "loop"

NextHop == HopBody \/ HopIndexError \/ HopReturn

SpecHop == InitHop /\ [][NextHop]_vars

----------------------------------------------------------------------------
(* Properties of the hop classifier.                                       *)

\* h[t] - h[t-1] for Python frame t (hts[t+1] here), t in 1..Len(hts)-1.
Step(t) == hts[t + 1] - hts[t]

Frames == 1..(Len(hts) - 1)

NumForward == Cardinality({t \in Frames : Step(t) = 1})

\* A pass of the loop body has just been taken.
BodyTaken == hop_pc = "loop" /\ i' = i + 1

\* C1: for every trajectory, h[0] = 0 and every step of h is -1, 0 or +1;
\* a trajectory of length >= 1 yields one value of h per frame.
C1_StartsAtZeroUnitSteps ==
    /\ Len(hts) >= 1
    /\ hts[1] = 0
    /\ \A t \in Frames : Step(t) \in {-1, 0, 1}
    /\ (hop_pc = "returned" /\ Len(ts) = Len(rxncenter) /\ Len(ts) >= 1)
           => Len(hts) = Len(rxncenter)

C1_Witness ==
    /\ hop_pc = "returned"
    /\ Len(ts) = Len(rxncenter)
    /\ \E a, b, c \in Frames : Step(a) = 1 /\ Step(b) = -1 /\ Step(c) = 0

\* C2: at a frame where the center changes, the step is -1 exactly when the
\* current center is the top of donor_history and +1 in every other case (a
\* deeper entry included); a forward hop a -> b followed next by a change back
\* to a returns h to its value before the forward hop, and the centers
\* [1,1,2,2,1] give h = [0,0,1,1,0].
C2_BackwardIffTop ==
    /\ [][BodyTaken =>
            LET pcenter == rxncenter[i]
                ccenter == rxncenter[i + 1]
                step    == hts'[i + 1] - hts[i]
            IN pcenter # ccenter =>
                 /\ (ccenter = Top(pdonor) => step = -1)
                 /\ (ccenter # Top(pdonor) => step = 1)]_vars
    /\ [](\A a, b \in Frames :
            (/\ a < b
             /\ Step(a) = 1
             /\ rxncenter[b + 1] = rxncenter[a]
             /\ \A c \in (a + 1)..b : rxncenter[c] = rxncenter[a + 1]
             /\ rxncenter[a + 1] # rxncenter[a])
            => hts[b + 1] = hts[a])
    /\ []((hop_pc = "returned" /\ Len(ts) = 5 /\ rxncenter = <<1, 1, 2, 2, 1>>)
            => hts = <<0, 0, 1, 1, 0>>)

\* The center returns to 1, an entry of donor_history below its top (2): forward.
C2_Witness ==
    /\ hop_pc = "returned"
    /\ rxncenter = <<1, 2, 3, 1>>
    /\ hts = <<0, 1, 2, 3>>
    /\ pdonor = <<0, 1, 2, 3>>

\* C7: when ts and rxncenter differ in length the run fails before any hop
\* value is computed: it never returns h and never fails part-way.
C7_MismatchFailsFirst ==
    Len(ts) # Len(rxncenter) => (hop_pc # "returned" /\ Len(hts) = 1)

\* C8: the first frame at which the center changes is a forward hop, so h is 1
\* right after it, whatever identifiers occur.
C8_FirstChangeIsForward ==
    \A t \in Frames :
        (/\ rxncenter[t] # rxncenter[t + 1]
         /\ \A s \in 1..(t - 1) : rxncenter[s] = rxncenter[s + 1])
        => hts[t + 1] = 1

\* C9: donor_history is append-only: a no-hop or backward step leaves it
\* unchanged, a forward step appends exactly prev_center, no step removes or
\* changes an entry, and its length is 1 plus the number of forward hops so far.
C9_DonorHistoryAppendOnly ==
    /\ [][BodyTaken =>
            LET step == hts'[i + 1] - hts[i]
            IN /\ (step \in {0, -1} => pdonor' = pdonor)
               /\ (step = 1 => pdonor' = Append(pdonor, rxncenter[i]))]_vars
    /\ [][/\ Len(pdonor') >= Len(pdonor)
          /\ SubSeq(pdonor', 1, Len(pdonor)) = pdonor]_vars
    /\ [](Len(pdonor) = 1 + NumForward)

C9_Witness ==
    /\ hop_pc = "returned"
    /\ \E a, b, c \in Frames : Step(a) = 1 /\ Step(b) = -1 /\ Step(c) = 0
    /\ Len(pdonor) = 3

\* C10: two backward hops never occur without a forward hop between them (after
\* a backward hop the current center is the top of donor_history); so h >= -1
\* everywhere, and h >= 0 everywhere when the first center change is forward.
C10_NoConsecutiveBackward ==
    /\ \A a, b \in Frames :
          (a < b /\ Step(a) = -1 /\ Step(b) = -1)
              => \E c \in (a + 1)..(b - 1) : Step(c) = 1
    /\ \A t \in Frames :
          Step(t) = -1 =>
              \/ rxncenter[t + 1] = Top(pdonor)
              \/ \E c \in (t + 1)..(Len(hts) - 1) : Step(c) = 1
    /\ \A t \in 1..Len(hts) : hts[t] >= -1
    /\ (\E t \in Frames : Step(t) = 1 /\ \A s \in 1..(t - 1) : Step(s) = 0)
          => \A t \in 1..Len(hts) : hts[t] >= 0

C10_Witness ==
    /\ hop_pc = "returned"
    /\ \E a, b, c \in Frames :
          a < c /\ c < b /\ Step(a) = -1 /\ Step(c) = 1 /\ Step(b) = -1
    /\ \E t \in 1..Len(hts) : hts[t] = -1

----------------------------------------------------------------------------
(* civec_pdf.py : second_largest and the extraction loop of main           *)

\* Amplitudes, on a grid of exact values that has ties, zero and negative
\* entries of larger magnitude than the positive ones.
AmpVals == {-2, 0, 1}

Vectors == SeqsOf(AmpVals, 0, MaxStates)

\* Python's None, and a number x, as values of the slots m1 and m2.
None == <<>>

Num(x) == <<x>>

\* "x >= m" where m may be None.  A number compared with None is True when the
\* interpreter orders None below every number (Python 2) and raises TypeError
\* when it does not (Python 3).
GeSlot(x, m, ordered) ==
    IF m = None THEN (IF ordered THEN "True" ELSE "TypeError")
    ELSE IF x >= m[1] THEN "True" ELSE "False"

\* "x > m" where m may be None.
GtSlot(x, m, ordered) ==
    IF m = None THEN (IF ordered THEN "True" ELSE "TypeError")
    ELSE IF x > m[1] THEN "True" ELSE "False"

\* m1, m2 = None, None
SlInitZero == [m1 |-> Num(0), m2 |-> Num(0), err |-> FALSE]

SlInit == [m1 |-> None, m2 |-> None, err |-> FALSE]

\* One pass of "for x in numbers", lines 154-157.
SlStep(st, x, ordered) ==
    IF st.err THEN st
    ELSE LET ge == GeSlot(x, st.m1, ordered)
             gt == GtSlot(x, st.m2, ordered)
         IN IF ge = "TypeError" THEN [st EXCEPT !.err = TRUE]
            ELSE IF ge = "True" THEN [m1 |-> Num(x), m2 |-> st.m1, err |-> FALSE]
            ELSE IF gt = "TypeError" THEN [st EXCEPT !.err = TRUE]
            ELSE IF gt = "True" THEN [st EXCEPT !.m2 = Num(x)]
            ELSE st

RECURSIVE SlFold(_, _, _, _)
SlFold(numbers, n, st, ordered) ==
    IF n > Len(numbers) THEN st
    ELSE SlFold(numbers, n + 1, SlStep(st, numbers[n], ordered), ordered)

\* second_largest(numbers): [err |-> TRUE] when a comparison raised, else the
\* returned m2 (a number, or None).
second_largest(numbers, ordered) == SlFold(numbers, 1, SlInit, ordered)

\* max(i) of a nonempty sequence of numbers.
Max(numbers) ==
    CHOOSE x \in {numbers[n] : n \in 1..Len(numbers)} :
        \A n \in 1..Len(numbers) : x >= numbers[n]

\* l*l
Square(x) == x * x

\* max(i) of an empty frame raises ValueError (line 57).
AmpValueError ==
    /\ amp_pc = "loop"
    /\ frame <= Len(tmp)
    /\ Len(tmp[frame]) = 0
    /\ amp_pc' = "ValueError"
    /\ UNCHANGED <<tmp, frame, first, second, none_ordered, hopvars, fevars>>

\* A comparison with None inside second_largest raises TypeError (line 58).
AmpCompareTypeError ==
    /\ amp_pc = "loop"
    /\ frame <= Len(tmp)
    /\ Len(tmp[frame]) > 0
    /\ second_largest(tmp[frame], none_ordered).err
    /\ amp_pc' = "TypeError"
    /\ UNCHANGED <<tmp, frame, first, second, none_ordered, hopvars, fevars>>

\* second_largest returned None: line 60 appends l*l, then l2*l2 of line 61
\* raises TypeError.
AmpSquareTypeError ==
    /\ amp_pc = "loop"
    /\ frame <= Len(tmp)
    /\ Len(tmp[frame]) > 0
    /\ LET r == second_largest(tmp[frame], none_ordered)
       IN /\ ~r.err
          /\ r.m2 = None
    /\ first' = Append(first, Square(Max(tmp[frame])))
    /\ amp_pc' = "TypeError"
    /\ UNCHANGED <<tmp, frame, second, none_ordered, hopvars, fevars>>

\* One full pass of the loop body, lines 57-61.
AmpAppend ==
    /\ amp_pc = "loop"
    /\ frame <= Len(tmp)
    /\ Len(tmp[frame]) > 0
    /\ LET r == second_largest(tmp[frame], none_ordered)
       IN /\ ~r.err
          /\ r.m2 # None
          /\ second' = Append(second, Square(r.m2[1]))
    /\ first' = Append(first, Square(Max(tmp[frame])))
    /\ frame' = frame + 1
    /\ UNCHANGED <<tmp, amp_pc, none_ordered, hopvars, fevars>>

\* "for i in tmp" is exhausted: first and second are the samples.
AmpDone ==
    /\ amp_pc = "loop"
    /\ frame > Len(tmp)
    /\ amp_pc' = "done"
    /\ UNCHANGED <<tmp, frame, first, second, none_ordered, hopvars, fevars>>

\* The state at line 56, before the first frame.
InitAmp ==
    /\ HopIdle
    /\ FeIdle
    /\ tmp \in SeqsOf(Vectors, 0, MaxAmpFrames)
    /\ frame = 1
    /\ first = <<>>
    /\ second = <<>>
    /\ amp_pc = "loop"
    /\ none_ordered \in BOOLEAN

NextAmp ==
    \/ AmpValueError
    \/ AmpCompareTypeError
    \/ AmpSquareTypeError
    \/ AmpAppend
    \/ AmpDone

SpecAmp == InitAmp /\ [][NextAmp]_vars

----------------------------------------------------------------------------
(* Properties of the amplitude extraction.                                 *)

\* C3: for every frame with at least 2 amplitudes (negative ones included) the
\* samples satisfy dominant_sq >= secondary_sq >= 0.
C3_DominantAtLeastSecondary ==
    \A f \in 1..Len(second) :
        Len(tmp[f]) >= 2 => (first[f] >= second[f] /\ second[f] >= 0)

ShortFrame(f) == f \in 1..Len(tmp) /\ Len(tmp[f]) < 2

AmpError == amp_pc \in {"TypeError", "ValueError"}

\* C5: if a frame has fewer than 2 amplitudes the extraction ends in an error
\* at that frame and yields no samples: the loop never completes, never gets
\* past the frame, and no secondary_sq (zero or other) is stored for it.
C5_ShortFrameEndsInError ==
    /\ [](\A f \in 1..Len(tmp) :
            ShortFrame(f) =>
                /\ amp_pc # "done"
                /\ frame <= f
                /\ Len(second) < f)
    /\ [][(amp_pc = "loop" /\ ShortFrame(frame)) => AmpError']_vars
    /\ [][AmpError => UNCHANGED vars]_vars

\* Python 2 path: the single amplitude is squared into first, then None*None raises.
C5_Witness ==
    /\ amp_pc = "TypeError"
    /\ none_ordered
    /\ frame = 2
    /\ Len(tmp[1]) = 2
    /\ Len(tmp[2]) = 1
    /\ Len(first) = 2
    /\ Len(second) = 1

----------------------------------------------------------------------------
(* civec_pdf.py : the densities, the grids and the free-energy profile of  *)
(* main, lines 43-99                                                       *)

\* parser default of --bins
DefaultBins == 200

\* args.bins is the int default when --bins is absent and otherwise the str
\* typed on the command line (the option has no type=int); a str is held as
\* its sequence of decimal digits.
IntArg(n) == [type |-> "int", int |-> n, str |-> <<>>]

StrArg(ds) == [type |-> "str", int |-> 0, str |-> ds]

BinsArgs ==
    {IntArg(DefaultBins)} \cup {StrArg(ds) : ds \in SeqsOf(0..9, 1, MaxDigits)}

\* 2*nbins: doubling of an int, repetition of a str.
Twice(a) == IF a.type = "int" THEN IntArg(2 * a.int) ELSE StrArg(a.str \o a.str)

\* int(s) of a str of decimal digits.
RECURSIVE IntOfDigits(_)
IntOfDigits(ds) ==
    IF ds = <<>> THEN 0
    ELSE 10 * IntOfDigits(SubSeq(ds, 1, Len(ds) - 1)) + ds[Len(ds)]

\* numpy.linspace(lo, hi, num) takes an int num; given a str it either applies
\* int(num) or raises TypeError, depending on the numpy installed.
LinspaceAccepts(num, coerces) == num.type = "int" \/ coerces

\* The grid is determined by its ends and its number of points.
linspace(lo, hi, num) ==
    [lo |-> lo, hi |-> hi,
     num |-> IF num.type = "int" THEN num.int ELSE IntOfDigits(num.str)]

\* Values a gaussian_kde density can take at a point: 0 (every kernel
\* underflows) or a positive value 2^e.
DensityVals ==
    {[k |-> "zero", e |-> 0], [k |-> "pos", e |-> -1], [k |-> "pos", e |-> 1]}

\* A density over the range of its grid: its value on each of NSeg equal parts.
DensityTables == [0..(NSeg - 1) -> DensityVals]

\* gaussian_kde(sample), and gaussian_kde of the negated sample: the latter is
\* the mirror image of the former, pdf4(x) = pdf3(-x).
Kde(table) == [table |-> table, mirrored |-> FALSE]

KdeNegated(table) == [table |-> table, mirrored |-> TRUE]

\* A density the selected mode never evaluates is held at this one.
SomeTable == [s \in 0..(NSeg - 1) |-> [k |-> "pos", e |-> 1]]

\* IEEE doubles: a finite value v (energies in units of kb_kcal*300.0*ln 2,
\* logarithms in units of ln 2), the infinities and NaN.
Fin(v) == [k |-> "fin", v |-> v]

PosInf == [k |-> "inf", v |-> 0]

NegInf == [k |-> "ninf", v |-> 0]

NaN == [k |-> "nan", v |-> 0]

\* numpy.log: log(2^e) = e ln 2, log(0) = -inf.
log(d) == IF d.k = "pos" THEN Fin(d.e) ELSE NegInf

\* -kb_kcal*300.0*x : multiplication by a negative finite constant.
ScaleNegKT(x) ==
    IF x.k = "fin" THEN Fin(-x.v)
    ELSE IF x.k = "ninf" THEN PosInf
    ELSE IF x.k = "inf" THEN NegInf
    ELSE NaN

\* val = -kb_kcal*300.0*log(pdf(i))
Energy(d) == ScaleNegKT(log(d))

\* a < b on doubles: False whenever either is NaN.
FLt(a, b) ==
    IF a.k = "nan" \/ b.k = "nan" THEN FALSE
    ELSE IF a.k = "ninf" THEN b.k # "ninf"
    ELSE IF a.k = "fin" THEN b.k = "inf" \/ (b.k = "fin" /\ a.v < b.v)
    ELSE FALSE

\* a + (-m) on doubles.
FSub(a, m) ==
    IF a.k = "nan" \/ m.k = "nan" THEN NaN
    ELSE IF a.k = "fin" THEN
        (IF m.k = "fin" THEN Fin(a.v - m.v)
         ELSE IF m.k = "inf" THEN NegInf ELSE PosInf)
    ELSE IF a.k = "inf" THEN (IF m.k = "inf" THEN NaN ELSE PosInf)
    ELSE (IF m.k = "ninf" THEN NaN ELSE NegInf)

\* One step of Python's builtin min: the running minimum is replaced by an
\* item that compares less than it.
MinStep(cur, item) == IF FLt(item, cur) THEN item ELSE cur

\* free_energy += -minfe
Shift(seq, m) == [n \in 1..Len(seq) |-> FSub(seq[n], m)]

\* The part of the range in which point idx (0-based) of a grid of npoints lies.
Seg(idx, npoints) ==
    IF npoints = 1 THEN 0
    ELSE LET q == (idx * NSeg) \div (npoints - 1)
         IN IF q > NSeg - 1 THEN NSeg - 1 ELSE q

\* pdf(i) for i the point idx of grid; the point -i is point num-1-idx.
Eval(pdf, idx, grid) ==
    IF pdf.mirrored THEN pdf.table[Seg(grid.num - 1 - idx, grid.num)]
    ELSE pdf.table[Seg(idx, grid.num)]

\* Point idx of linspace(-1, 1, num) is x = -1 + 2*idx/(num-1).
\* x < -0.04 iff 50*idx < 24*(num-1); x > 0.04 iff 50*idx > 26*(num-1).
\* Where x is -0.04 or 0.04 in exact arithmetic the rounding of the computed
\* double decides the comparison, so either outcome is allowed there.
BelowDeadZone(idx, num) == num = 1 \/ 50 * idx < 24 * (num - 1)

AboveDeadZone(idx, num) == num > 1 /\ 50 * idx > 26 * (num - 1)

OnLowerEdge(idx, num) == num > 1 /\ 50 * idx = 24 * (num - 1)

OnUpperEdge(idx, num) == num > 1 /\ 50 * idx = 26 * (num - 1)

\* Lines 65-75 run through: the densities are fitted and the grids built.
FeFit ==
    /\ fe_pc = "fit"
    /\ LinspaceAccepts(nbins, linspace_coerces)
    /\ \E t1 \in (IF genfe \/ ~genfed THEN DensityTables ELSE {SomeTable}) :
          pdf1' = Kde(t1)
    /\ bin_pdf1' = linspace(0, 1, nbins)
    /\ IF genfed
       THEN /\ \E t3 \in (IF genfe THEN {SomeTable} ELSE DensityTables) :
                  /\ pdf3' = Kde(t3)
                  /\ pdf4' = KdeNegated(t3)
            /\ bin_pdf3' = linspace(-1, 1, Twice(nbins))
       ELSE UNCHANGED <<pdf3, pdf4, bin_pdf3>>
    /\ fe_pc' = "start"
    /\ UNCHANGED <<genfe, genfed, nbins, linspace_coerces, g, free_energy,
                   minfe, mpos, hopvars, ampvars>>

\* linspace( 0, 1, nbins ) of line 67 raises TypeError on a str nbins.
FeLinspaceTypeError ==
    /\ fe_pc = "fit"
    /\ ~LinspaceAccepts(nbins, linspace_coerces)
    /\ \E t1 \in (IF genfe \/ ~genfed THEN DensityTables ELSE {SomeTable}) :
          pdf1' = Kde(t1)
    /\ fe_pc' = "TypeError"
    /\ UNCHANGED <<genfe, genfed, nbins, linspace_coerces, bin_pdf1, pdf3, pdf4,
                   bin_pdf3, g, free_energy, minfe, mpos, hopvars, ampvars>>

\* if genfe or genfed: free_energy = array([])
FeStart ==
    /\ fe_pc = "start"
    /\ genfe \/ genfed
    /\ free_energy' = <<>>
    /\ g' = 0
    /\ fe_pc' = "loop"
    /\ UNCHANGED <<fefixed, minfe, mpos, hopvars, ampvars>>

\* Neither flag: the densities are plotted and no profile is computed.
FeNoEnergy ==
    /\ fe_pc = "start"
    /\ ~(genfe \/ genfed)
    /\ fe_pc' = "density"
    /\ UNCHANGED <<fefixed, g, free_energy, minfe, mpos, hopvars, ampvars>>

\* for i in bin_pdf1: lines 85-87.
FeSingle ==
    /\ fe_pc = "loop"
    /\ genfe
    /\ g < bin_pdf1.num
    /\ free_energy' = Append(free_energy, Energy(Eval(pdf1, g, bin_pdf1)))
    /\ g' = g + 1
    /\ UNCHANGED <<fefixed, minfe, mpos, fe_pc, hopvars, ampvars>>

\* for i in bin_pdf3, i < -0.04: lines 90-91.
FeDiffNeg ==
    /\ fe_pc = "loop"
    /\ ~genfe
    /\ g < bin_pdf3.num
    /\ BelowDeadZone(g, bin_pdf3.num) \/ OnLowerEdge(g, bin_pdf3.num)
    /\ free_energy' = Append(free_energy, Energy(Eval(pdf4, g, bin_pdf3)))
    /\ g' = g + 1
    /\ UNCHANGED <<fefixed, minfe, mpos, fe_pc, hopvars, ampvars>>

\* for i in bin_pdf3, i > 0.04: lines 92-93.
FeDiffPos ==
    /\ fe_pc = "loop"
    /\ ~genfe
    /\ g < bin_pdf3.num
    /\ AboveDeadZone(g, bin_pdf3.num) \/ OnUpperEdge(g, bin_pdf3.num)
    /\ free_energy' = Append(free_energy, Energy(Eval(pdf3, g, bin_pdf3)))
    /\ g' = g + 1
    /\ UNCHANGED <<fefixed, minfe, mpos, fe_pc, hopvars, ampvars>>

\* for i in bin_pdf3, -0.04 <= i <= 0.04: lines 94-95.
FeDiffDead ==
    /\ fe_pc = "loop"
    /\ ~genfe
    /\ g < bin_pdf3.num
    /\ ~BelowDeadZone(g, bin_pdf3.num)
    /\ ~AboveDeadZone(g, bin_pdf3.num)
    /\ free_energy' = Append(free_energy, Fin(0))
    /\ g' = g + 1
    /\ UNCHANGED <<fefixed, minfe, mpos, fe_pc, hopvars, ampvars>>

\* The grid is exhausted.
GridDone == g >= (IF genfe THEN bin_pdf1.num ELSE bin_pdf3.num)

\* min(free_energy) of an empty profile (a grid of 0 points) raises ValueError.
FeMinValueError ==
    /\ fe_pc = "loop"
    /\ GridDone
    /\ Len(free_energy) = 0
    /\ fe_pc' = "ValueError"
    /\ UNCHANGED <<fefixed, g, free_energy, minfe, mpos, hopvars, ampvars>>

\* min(free_energy) starts from the first item.
FeMinFirst ==
    /\ fe_pc = "loop"
    /\ GridDone
    /\ Len(free_energy) > 0
    /\ minfe' = free_energy[1]
    /\ mpos' = 2
    /\ fe_pc' = "min"
    /\ UNCHANGED <<fefixed, g, free_energy, hopvars, ampvars>>

\* min(free_energy) compares the next item.
FeMinNext ==
    /\ fe_pc = "min"
    /\ mpos <= Len(free_energy)
    /\ minfe' = MinStep(minfe, free_energy[mpos])
    /\ mpos' = mpos + 1
    /\ UNCHANGED <<fefixed, g, free_energy, fe_pc, hopvars, ampvars>>

\* minfe = min(free_energy) is known: free_energy += -minfe.
FeShift ==
    /\ fe_pc = "min"
    /\ mpos > Len(free_energy)
    /\ free_energy' = Shift(free_energy, minfe)
    /\ fe_pc' = "done"
    /\ UNCHANGED <<fefixed, g, minfe, mpos, hopvars, ampvars>>

\* The state at line 63: the arguments are parsed, nothing is fitted yet.
InitFE ==
    /\ HopIdle
    /\ AmpIdle
    /\ genfe \in BOOLEAN
    /\ genfed \in BOOLEAN
    /\ nbins \in BinsArgs
    /\ linspace_coerces \in BOOLEAN
    /\ pdf1 = Unset
    /\ bin_pdf1 = Unset
    /\ pdf3 = Unset
    /\ pdf4 = Unset
    /\ bin_pdf3 = Unset
    /\ g = 0
    /\ free_energy = <<>>
    /\ minfe = Unset
    /\ mpos = 1
    /\ fe_pc = "fit"

NextFE ==
    \/ FeFit
    \/ FeLinspaceTypeError
    \/ FeStart
    \/ FeNoEnergy
    \/ FeSingle
    \/ FeDiffNeg
    \/ FeDiffPos
    \/ FeDiffDead
    \/ FeMinValueError
    \/ FeMinFirst
    \/ FeMinNext
    \/ FeShift

SpecFE == InitFE /\ [][NextFE]_vars

----------------------------------------------------------------------------
(* Properties of the free-energy profile.                                  *)

\* C4: after the final shift the profile has minimum exactly 0 in both modes,
\* for every density and grid: some entry is 0 and every entry is >= 0.
C4_MinIsZeroAfterShift ==
    fe_pc = "done" =>
        /\ \E n \in 1..Len(free_energy) : free_energy[n] = Fin(0)
        /\ \A n \in 1..Len(free_energy) :
              \/ free_energy[n].k = "inf"
              \/ (free_energy[n].k = "fin" /\ free_energy[n].v >= 0)

\* C6: a density <= 0 at a coordinate that needs a logarithm ends the
\* computation in DensityDomainError: no infinite or NaN energy enters the
\* profile, and no profile is completed.
C6_NoNonFiniteEnergy ==
    \A n \in 1..Len(free_energy) : free_energy[n].k = "fin"

====
